---- MODULE Spec2Model ----
(***************************************************************************)
(* A model of src/src/main.rs: the composite tree of musical elements      *)
(* (Note, Pause, Sequential, Parallel), its duration fold, the recursive   *)
(* channel assignment, the deep copy, and the script run by main.          *)
(*                                                                         *)
(* Boxed elements live in a heap: a sequence of nodes, a Box being the     *)
(* index of the node it owns.  Durations are f32 values, modelled with     *)
(* their 24-bit significand and round-to-nearest-even arithmetic.          *)
(***************************************************************************)
EXTENDS Integers, Sequences, FiniteSets, TLC

\* ------------------------------------------------------------------ f32
\* A finite non-negative f32 is [m, e], standing for m * 2^e, with
\* 2^23 <= m < 2^24 (normal numbers) or m = 0, e = 0 (zero).  Subnormals,
\* overflow, NaN and negative finite numbers are outside the model: the
\* values here lie between 2^-27 and 2^16.  Negative infinity is m = -1.

F32Zero == [m |-> 0, e |-> 0]

NEG_INFINITY == [m |-> -1, e |-> 0]

IsNegInf(x) == x.m < 0

\* The number of bits of n >= 0.
RECURSIVE BitLen(_)
BitLen(n) ==
    IF n = 0 THEN 0
    ELSE IF n >= 4096 THEN 12 + BitLen(n \div 4096)
    ELSE IF n >= 8 THEN 3 + BitLen(n \div 8)
    ELSE 1 + BitLen(n \div 2)

\* The number of zero bits at the low end of n > 0.
RECURSIVE TrailingZeros(_)
TrailingZeros(n) ==
    IF n = 0 \/ n % 2 = 1 THEN 0
    ELSE IF n % 4096 = 0 THEN 12 + TrailingZeros(n \div 4096)
    ELSE IF n % 8 = 0 THEN 3 + TrailingZeros(n \div 8)
    ELSE 1 + TrailingZeros(n \div 2)

\* The f32 nearest to (n + s) * 2^e, where 0 <= s < 1 and sticky says s > 0:
\* round to nearest, ties to even.  When n has more than 24 bits the callers
\* supply at least two extra bits, so sticky only decides exact ties.
F32Round(n, e, sticky) ==
    IF n = 0 THEN F32Zero
    ELSE LET len == BitLen(n) IN
         IF len <= 24
         THEN [m |-> n * 2^(24 - len), e |-> e - (24 - len)]
         ELSE LET k    == len - 24
                  q    == n \div 2^k
                  r    == n % 2^k
                  half == 2^(k - 1)
                  up   == r > half \/ (r = half /\ (sticky \/ q % 2 = 1))
                  q1   == IF up THEN q + 1 ELSE q
              IN  IF q1 = 2^24 THEN [m |-> 2^23, e |-> e + k + 1]
                               ELSE [m |-> q1, e |-> e + k]

\* An integer literal such as 1.0, 3.0, 12.0 or 16.0.
F32FromInt(n) == F32Round(n, 0, FALSE)

\* x + y on f32.
F32Add(x, y) ==
    IF IsNegInf(x) \/ IsNegInf(y) THEN NEG_INFINITY
    ELSE IF x.m = 0 THEN y
    ELSE IF y.m = 0 THEN x
    ELSE LET hi == IF x.e >= y.e THEN x ELSE y
             lo == IF x.e >= y.e THEN y ELSE x
             d  == hi.e - lo.e
         IN  IF d > 26 THEN hi
             ELSE F32Round(hi.m * 8 + ((lo.m * 8) \div 2^d), hi.e - 3,
                           (lo.m * 8) % 2^d # 0)

\* x * y on finite f32.  The significands are multiplied with their trailing
\* zero bits taken off; one factor is always MIDI_TEMPO (15 * 2^8), so the
\* product stays below 2^28.
F32Mul(x, y) ==
    IF x.m = 0 \/ y.m = 0 THEN F32Zero
    ELSE LET tx == TrailingZeros(x.m)
             ty == TrailingZeros(y.m)
         IN  F32Round((x.m \div 2^tx) * (y.m \div 2^ty), x.e + tx + y.e + ty, FALSE)

\* x / y on f32, y finite and positive with an odd part below 16 (the
\* divisors of the program are 4, 12, 16 and 3840).
F32Div(x, y) ==
    IF IsNegInf(x) THEN NEG_INFINITY
    ELSE IF x.m = 0 THEN F32Zero
    ELSE LET ty  == TrailingZeros(y.m)
             odd == y.m \div 2^ty
             n   == x.m * 128
         IN  F32Round(n \div odd, x.e - 7 - (y.e + ty), n % odd # 0)

\* x < y on f32.
F32Lt(x, y) ==
    IF IsNegInf(y) THEN FALSE
    ELSE IF IsNegInf(x) THEN TRUE
    ELSE IF x.m = 0 THEN y.m > 0
    ELSE IF y.m = 0 THEN FALSE
    ELSE x.e < y.e \/ (x.e = y.e /\ x.m < y.m)

\* f32::max (no NaN arises in the model).
F32Max(x, y) == IF F32Lt(x, y) THEN y ELSE x

\* The literal a/b as the program writes it (1.0/12.0, 3.0/16.0, 0.25 = 1/4).
Frac(a, b) == F32Div(F32FromInt(a), F32FromInt(b))

\* The duration of a whole note in MIDI ticks.
MIDI_TEMPO == F32FromInt(3840)

\* ------------------------------------------------------------ vocabulary
\* enum NoteClass and enum Channel, by variant name.
NoteClass == {"C", "Cs", "D", "Ds", "E", "F", "Fs", "G", "Gs", "A", "As", "B"}

Channel == {"Piano", "Organ", "Guitar", "Violin", "Flute", "Trumpet",
            "Helicopter", "Telephone"}

\* ------------------------------------------------------------- elements
\* A node of the heap is one of
\*   [kind |-> "Note", name, octave, instrument, duration]
\*   [kind |-> "Pause", duration]
\*   [kind |-> "Sequential", elements]    elements: a sequence of node ids
\*   [kind |-> "Parallel", elements]
\* and a Box<MusicElement> is the id (index in the heap) of the node it owns.

Composite == {"Sequential", "Parallel"}

\* Note::new: instrument Piano and duration 1/4 by default.
Note_new(name, octave) ==
    [kind |-> "Note", name |-> name, octave |-> octave,
     instrument |-> "Piano", duration |-> Frac(1, 4)]

\* Note::channel, the builder.
Note_channel(self, instrument) == [self EXCEPT !.instrument = instrument]

\* Note::duration(self, f32), the builder.
Note_duration(self, duration) == [self EXCEPT !.duration = duration]

\* Pause::new.
Pause_new(duration) == [kind |-> "Pause", duration |-> duration]

\* Sequential::default() and Parallel::default(): no elements.
Sequential_default == [kind |-> "Sequential", elements |-> <<>>]

Parallel_default == [kind |-> "Parallel", elements |-> <<>>]

\* A value comes to exist, as a local or through Box::new: the node is put
\* on the heap; its id is the new length.  Moving a value keeps its id.
Alloc(h, node) == Append(h, node)

\* seq.elements.push(Box::new(e)) in sequence! and parallel!: e moves into
\* the box.
push(h, seq, box) == [h EXCEPT ![seq].elements = Append(@, box)]

\* ------------------------------------------------------------- duration
RECURSIVE duration(_, _)
RECURSIVE Sequential_sum(_, _, _)
RECURSIVE Parallel_fold(_, _, _)

\* Faulty variant: the tempo is forgotten.
Note_impl_duration_raw(self) == self.duration

\* impl MusicElement for Note: duration().
Note_impl_duration(self) == F32Mul(self.duration, MIDI_TEMPO)

\* Faulty variant: the tempo is forgotten.
Pause_impl_duration_raw(self) == self.duration

\* impl MusicElement for Pause: duration().
Pause_impl_duration(self) == F32Mul(self.duration, MIDI_TEMPO)

\* iter().map(|e| e.duration()).sum() over the first n elements: a left fold
\* of + from 0.0.
Sequential_sum(h, elements, n) ==
    IF n = 0 THEN F32Zero
    ELSE F32Add(Sequential_sum(h, elements, n - 1), duration(h, elements[n]))

\* Faulty variant: the last element is left out of the sum.
Sequential_impl_duration_short(h, self) ==
    IF self.elements = <<>> THEN F32Zero
    ELSE Sequential_sum(h, self.elements, Len(self.elements) - 1)

\* impl MusicElement for Sequential: duration().
Sequential_impl_duration(h, self) ==
    Sequential_sum(h, self.elements, Len(self.elements))

\* iter().fold(NEG_INFINITY, |acc, e| e.duration().max(acc)) over the first
\* n elements.
Parallel_fold(h, elements, n) ==
    IF n = 0 THEN NEG_INFINITY
    ELSE F32Max(duration(h, elements[n]), Parallel_fold(h, elements, n - 1))

\* Faulty variant: the fold starts at 0.0.
Parallel_impl_duration_from_zero(h, self) ==
    F32Max(F32Zero, Parallel_fold(h, self.elements, Len(self.elements)))

\* impl MusicElement for Parallel: duration().
Parallel_impl_duration(h, self) ==
    Parallel_fold(h, self.elements, Len(self.elements))

\* e.duration() on a Box<MusicElement>: dynamic dispatch on the node's type.
duration(h, id) ==
    CASE h[id].kind = "Note"       -> Note_impl_duration(h[id])
      [] h[id].kind = "Pause"      -> Pause_impl_duration(h[id])
      [] h[id].kind = "Sequential" -> Sequential_impl_duration(h, h[id])
      [] h[id].kind = "Parallel"   -> Parallel_impl_duration(h, h[id])

\* ---------------------------------------------------------- set_channel
RECURSIVE set_channel(_, _, _)
RECURSIVE for_each_set_channel(_, _, _, _)

\* Faulty variant: the note is built anew with the channel, and loses its duration.
Note_impl_set_channel_rebuilt(h, id, channel) ==
    [h EXCEPT ![id] = Note_channel(Note_new(h[id].name, h[id].octave), channel)]

\* impl MusicElement for Note: set_channel.
Note_impl_set_channel(h, id, channel) == [h EXCEPT ![id].instrument = channel]

\* impl MusicElement for Pause: set_channel does nothing.
Pause_impl_set_channel(h, id, channel) == h

\* Faulty variant: only the elements that are Notes are visited.
for_each_set_channel_flat(h, elements, n, channel) ==
    [i \in DOMAIN h |->
        IF h[i].kind = "Note" /\ \E k \in 1..n : elements[k] = i
        THEN [h[i] EXCEPT !.instrument = channel] ELSE h[i]]

\* for element in self.elements.iter_mut() { element.set_channel(..) },
\* over the first n elements.
for_each_set_channel(h, elements, n, channel) ==
    IF n = 0 THEN h
    ELSE set_channel(for_each_set_channel(h, elements, n - 1, channel),
                     elements[n], channel)

\* Faulty variant: the loop ends after the first Note it changes.
Sequential_impl_set_channel_break(h, id, channel) ==
    LET todo == {k \in DOMAIN h[id].elements :
                    /\ h[h[id].elements[k]].kind = "Note"
                    /\ h[h[id].elements[k]].instrument # channel}
    IN  IF todo = {} THEN h
        ELSE LET k == CHOOSE x \in todo : \A y \in todo : x <= y
             IN  [h EXCEPT ![h[id].elements[k]].instrument = channel]

\* impl MusicElement for Sequential: set_channel.
Sequential_impl_set_channel(h, id, channel) ==
    for_each_set_channel(h, h[id].elements, Len(h[id].elements), channel)

\* Faulty variant: only the first element is visited.
Parallel_impl_set_channel_first(h, id, channel) ==
    IF h[id].elements = <<>> THEN h
    ELSE set_channel(h, h[id].elements[1], channel)

\* impl MusicElement for Parallel: set_channel.
Parallel_impl_set_channel(h, id, channel) ==
    for_each_set_channel(h, h[id].elements, Len(h[id].elements), channel)

\* e.set_channel(channel) on a Box<MusicElement>: the heap after the call.
set_channel(h, id, channel) ==
    CASE h[id].kind = "Note"       -> Note_impl_set_channel(h, id, channel)
      [] h[id].kind = "Pause"      -> Pause_impl_set_channel(h, id, channel)
      [] h[id].kind = "Sequential" -> Sequential_impl_set_channel(h, id, channel)
      [] h[id].kind = "Parallel"   -> Parallel_impl_set_channel(h, id, channel)

\* ---------------------------------------------------------------- clone
RECURSIVE clone_box(_, _)
RECURSIVE Vec_clone(_, _)

\* One element of Vec<Box<MusicElement>>::clone: the box is cloned through
\* clone_box and the new box is pushed on the new vector.  st is [heap, ids]:
\* the heap so far and the new vector so far.
Vec_clone_step(st, box) ==
    LET c == clone_box(st.heap, box)
    IN  [heap |-> c.heap, ids |-> Append(st.ids, c.id)]

\* Vec<Box<MusicElement>>::clone: every box of elements is cloned, in order.
Vec_clone(st, elements) ==
    IF Len(st.ids) = Len(elements) THEN st
    ELSE Vec_clone(Vec_clone_step(st, elements[Len(st.ids) + 1]), elements)

\* Faulty variant: the boxes are copied, not what they own (a shallow copy).
derive_Clone_shallow(h, self) == [heap |-> h, node |-> self]

\* #[derive(Clone)] on a node: the fields are cloned one by one; the elements
\* of a composite are a Vec of boxes.  [heap, node].
derive_Clone(h, self) ==
    IF self.kind \in Composite
    THEN LET v == Vec_clone([heap |-> h, ids |-> <<>>], self.elements)
         IN  [heap |-> v.heap, node |-> [self EXCEPT !.elements = v.ids]]
    ELSE [heap |-> h, node |-> self]

\* Cloneable::clone_box, reached from Clone for Box<MusicElement>:
\* Box::new(self.clone()).  [heap, id].
clone_box(h, id) ==
    LET c == derive_Clone(h, h[id])
    IN  [heap |-> Alloc(c.heap, c.node), id |-> Len(c.heap) + 1]

\* ------------------------------------------------------- reading a tree
RECURSIVE Reach(_, _)
RECURSIVE Tree(_, _)

\* The ids of the nodes of the tree at id.
Reach(h, id) ==
    {id} \cup (IF h[id].kind \in Composite
               THEN UNION {Reach(h, h[id].elements[i]) : i \in DOMAIN h[id].elements}
               ELSE {})

\* The tree at id as a value: every box replaced by the tree it owns.
Tree(h, id) ==
    IF h[id].kind \in Composite
    THEN [kind |-> h[id].kind,
          elements |-> [i \in DOMAIN h[id].elements |-> Tree(h, h[id].elements[i])]]
    ELSE h[id]

\* The Notes of the tree at id.
NotesOf(h, id) == {n \in Reach(h, id) : h[n].kind = "Note"}

\* ---------------------------------------------------------------- state
VARIABLES
    heap,     \* the nodes in existence, by id
    roots,    \* the ids of the values owned by a local variable
    stack,    \* the `seq` of every macro being expanded, innermost last
    acc,      \* the value of the expression just evaluated (0: none)
    last,     \* the last call made on an element, and what it returned
    pc,       \* main: the next statement of the script
    env,      \* main: the local variables, by name (0: not bound)
    out       \* main: the values printed, in order

vars == <<heap, roots, stack, acc, last, pc, env, out>>

\* The most nodes of the expression a program builds.
MaxNodes == 4

\* The most local variables that hold an element at a time.
MaxLocals == 2

\* The arguments the operations are called with.
InNames == {"C"}

InOctaves == {4}

InChannels == {"Organ"}

InLengths == {Frac(1, 12)}

InPauses == {Frac(1, 1)}

\* The names of main's local variables that hold elements.
VarNames == {"c5_triplet", "g4_triplet", "e4_triplet", "c4_triplet", "music",
             "music_organ", "music_violin", "canon"}

\* last: op is the call ("build" when the last statement was none of clone,
\* set_channel, duration), id the element it was made on, channel the
\* argument of set_channel, pre the instruments the element's Notes had when
\* set_channel was called, result what duration() returned.
NoCall == [op |-> "build", id |-> 0, channel |-> "Piano", pre |-> {},
           result |-> F32Zero]

Init ==
    /\ heap = <<>>
    /\ roots = {}
    /\ stack = <<>>
    /\ acc = 0
    /\ last = NoCall
    /\ pc = 1
    /\ env = [v \in VarNames |-> 0]
    /\ out = <<>>

\* ---------------------------------------------------- the statements
\* Every statement and sub-expression of the program is one action over
\* heap, roots, stack, acc and last.

\* Note::new(name, octave)
NoteNew(name, octave) ==
    /\ acc = 0
    /\ heap' = Alloc(heap, Note_new(name, octave))
    /\ acc' = Len(heap) + 1
    /\ last' = NoCall
    /\ UNCHANGED <<roots, stack>>

\* <note>.channel(instrument)
NoteChannel(instrument) ==
    /\ acc # 0
    /\ heap[acc].kind = "Note"
    /\ heap' = [heap EXCEPT ![acc] = Note_channel(heap[acc], instrument)]
    /\ last' = NoCall
    /\ UNCHANGED <<roots, stack, acc>>

\* <note>.duration(d)
NoteDuration(d) ==
    /\ acc # 0
    /\ heap[acc].kind = "Note"
    /\ heap' = [heap EXCEPT ![acc] = Note_duration(heap[acc], d)]
    /\ last' = NoCall
    /\ UNCHANGED <<roots, stack, acc>>

\* Pause::new(d)
PauseNew(d) ==
    /\ acc = 0
    /\ heap' = Alloc(heap, Pause_new(d))
    /\ acc' = Len(heap) + 1
    /\ last' = NoCall
    /\ UNCHANGED <<roots, stack>>

\* sequence![ ... opens: let mut seq = Sequential::default();
SequentialDefault ==
    /\ acc = 0
    /\ heap' = Alloc(heap, Sequential_default)
    /\ stack' = Append(stack, Len(heap) + 1)
    /\ last' = NoCall
    /\ UNCHANGED <<roots, acc>>

\* parallel![ ... opens: let mut seq = Parallel::default();
ParallelDefault ==
    /\ acc = 0
    /\ heap' = Alloc(heap, Parallel_default)
    /\ stack' = Append(stack, Len(heap) + 1)
    /\ last' = NoCall
    /\ UNCHANGED <<roots, acc>>

\* a local variable used by value as a macro argument: it is moved.
Load(r) ==
    /\ acc = 0
    /\ stack # <<>>
    /\ r \in roots
    /\ acc' = r
    /\ roots' = roots \ {r}
    /\ last' = NoCall
    /\ UNCHANGED <<heap, stack>>

\* seq.elements.push(Box::new($e));
PushElem ==
    /\ acc # 0
    /\ stack # <<>>
    /\ heap' = push(heap, stack[Len(stack)], acc)
    /\ acc' = 0
    /\ last' = NoCall
    /\ UNCHANGED <<roots, stack>>

\* ... ] closes: the macro's block has the value seq.
EndMacro ==
    /\ acc = 0
    /\ stack # <<>>
    /\ acc' = stack[Len(stack)]
    /\ stack' = SubSeq(stack, 1, Len(stack) - 1)
    /\ last' = NoCall
    /\ UNCHANGED <<heap, roots>>

\* let x = <expression>;
Let ==
    /\ acc # 0
    /\ stack = <<>>
    /\ roots' = roots \cup {acc}
    /\ acc' = 0
    /\ last' = NoCall
    /\ UNCHANGED <<heap, stack>>

\* x.clone()
Clone(r) ==
    /\ acc = 0
    /\ r \in roots
    /\ LET c == clone_box(heap, r)
       IN  /\ heap' = c.heap
           /\ acc' = c.id
    /\ last' = [NoCall EXCEPT !.op = "clone", !.id = r]
    /\ UNCHANGED <<roots, stack>>

\* x.set_channel(channel);
SetChannel(r, channel) ==
    /\ acc = 0
    /\ stack = <<>>
    /\ r \in roots
    /\ heap' = set_channel(heap, r, channel)
    /\ last' = [NoCall EXCEPT !.op = "set_channel", !.id = r,
                              !.channel = channel,
                              !.pre = {heap[n].instrument : n \in NotesOf(heap, r)}]
    /\ UNCHANGED <<roots, stack, acc>>

\* x.duration()
Duration(r) ==
    /\ acc = 0
    /\ stack = <<>>
    /\ r \in roots
    /\ last' = [NoCall EXCEPT !.op = "duration", !.id = r,
                              !.result = duration(heap, r)]
    /\ UNCHANGED <<heap, roots, stack, acc>>

\* ------------------------------------------- any program over elements
\* let a = <any expression of at most MaxNodes elements>; followed by any
\* sequence of let b = x.clone(); x.set_channel(c); and x.duration() on the
\* local variables, with arguments from the In sets.
Building == roots = {} /\ Len(heap) < MaxNodes

Idle == UNCHANGED <<pc, env, out>>

Next ==
    \/ \E name \in InNames, octave \in InOctaves :
          Building /\ NoteNew(name, octave) /\ Idle
    \/ \E instrument \in InChannels : roots = {} /\ NoteChannel(instrument) /\ Idle
    \/ \E d \in InLengths : roots = {} /\ NoteDuration(d) /\ Idle
    \/ \E d \in InPauses : Building /\ PauseNew(d) /\ Idle
    \/ Building /\ SequentialDefault /\ Idle
    \/ Building /\ ParallelDefault /\ Idle
    \/ PushElem /\ Idle
    \/ EndMacro /\ Idle
    \/ Let /\ Idle
    \/ \E r \in roots : Cardinality(roots) < MaxLocals /\ Clone(r) /\ Idle
    \/ \E r \in roots, channel \in InChannels : SetChannel(r, channel) /\ Idle
    \/ \E r \in roots : Duration(r) /\ Idle

Spec == Init /\ [][Next]_vars

\* ----------------------------------------------------------------- main
\* The statements of main, in order.  A note argument of a macro is three
\* statements: Note::new, the duration builder (both inside the closure
\* c4 .. c5) and the push.
NoteArg(name, octave, dur) ==
    <<[op |-> "Note::new", name |-> name, octave |-> octave],
      [op |-> "duration", d |-> dur],
      [op |-> "push"]>>

c4(dur) == NoteArg("C", 4, dur)

d4(dur) == NoteArg("D", 4, dur)

e4(dur) == NoteArg("E", 4, dur)

f4(dur) == NoteArg("F", 4, dur)

g4(dur) == NoteArg("G", 4, dur)

c5(dur) == NoteArg("C", 5, dur)

\* a local variable as a macro argument
VarArg(var) == <<[op |-> "load", var |-> var], [op |-> "push"]>>

\* let var = sequence![ args ];
LetSequence(var, args) ==
    <<[op |-> "sequence!"]>> \o args \o <<[op |-> "end"], [op |-> "let", var |-> var]>>

\* sequence![Pause::new(dur), var] as a macro argument
DelayedArg(dur, var) ==
    <<[op |-> "sequence!"], [op |-> "Pause::new", d |-> dur], [op |-> "push"]>>
    \o VarArg(var) \o <<[op |-> "end"], [op |-> "push"]>>

Script ==
    LetSequence("c5_triplet", c5(Frac(1, 12)) \o c5(Frac(1, 12)) \o c5(Frac(1, 12)))
    \o LetSequence("g4_triplet", g4(Frac(1, 12)) \o g4(Frac(1, 12)) \o g4(Frac(1, 12)))
    \o LetSequence("e4_triplet", e4(Frac(1, 12)) \o e4(Frac(1, 12)) \o e4(Frac(1, 12)))
    \o LetSequence("c4_triplet", c4(Frac(1, 12)) \o c4(Frac(1, 12)) \o c4(Frac(1, 12)))
    \o LetSequence("music",
            c4(Frac(1, 4)) \o c4(Frac(1, 4)) \o c4(Frac(3, 16)) \o d4(Frac(1, 16))
         \o e4(Frac(1, 4))
         \o e4(Frac(3, 16)) \o d4(Frac(1, 16)) \o e4(Frac(3, 16)) \o f4(Frac(1, 16))
         \o g4(Frac(1, 2))
         \o VarArg("c5_triplet") \o VarArg("g4_triplet") \o VarArg("e4_triplet")
         \o VarArg("c4_triplet")
         \o g4(Frac(3, 16)) \o f4(Frac(1, 16)) \o e4(Frac(3, 16)) \o d4(Frac(1, 16))
         \o c4(Frac(1, 2)))
    \o <<[op |-> "clone", var |-> "music"], [op |-> "let", var |-> "music_organ"],
         [op |-> "clone", var |-> "music"], [op |-> "let", var |-> "music_violin"],
         [op |-> "set_channel", var |-> "music_organ", channel |-> "Organ"],
         [op |-> "set_channel", var |-> "music_violin", channel |-> "Violin"],
         [op |-> "println", var |-> "music"],
         [op |-> "parallel!"]>>
    \o VarArg("music")
    \o DelayedArg(Frac(1, 1), "music_organ")
    \o DelayedArg(Frac(2, 1), "music_violin")
    \o <<[op |-> "end"], [op |-> "let", var |-> "canon"],
         [op |-> "println", var |-> "canon"]>>

\* println!("Length of ..: {} bars", x.duration() / MIDI_TEMPO);
Println(r) ==
    /\ Duration(r)
    /\ out' = Append(out, F32Div(duration(heap, r), MIDI_TEMPO))

MainDone == pc = Len(Script) + 1

\* The statement at pc is an op, and control moves past it.
Step(op) ==
    /\ pc <= Len(Script)
    /\ Script[pc].op = op
    /\ pc' = pc + 1

MainNext ==
    \/ Step("Note::new") /\ NoteNew(Script[pc].name, Script[pc].octave)
                         /\ UNCHANGED <<env, out>>
    \/ Step("duration") /\ NoteDuration(Script[pc].d) /\ UNCHANGED <<env, out>>
    \/ Step("Pause::new") /\ PauseNew(Script[pc].d) /\ UNCHANGED <<env, out>>
    \/ Step("sequence!") /\ SequentialDefault /\ UNCHANGED <<env, out>>
    \/ Step("parallel!") /\ ParallelDefault /\ UNCHANGED <<env, out>>
    \/ Step("push") /\ PushElem /\ UNCHANGED <<env, out>>
    \/ Step("end") /\ EndMacro /\ UNCHANGED <<env, out>>
    \/ Step("load") /\ Load(env[Script[pc].var])
                    /\ env' = [env EXCEPT ![Script[pc].var] = 0]
                    /\ UNCHANGED out
    \/ Step("let") /\ Let
                   /\ env' = [env EXCEPT ![Script[pc].var] = acc]
                   /\ UNCHANGED out
    \/ Step("clone") /\ Clone(env[Script[pc].var]) /\ UNCHANGED <<env, out>>
    \/ Step("set_channel") /\ SetChannel(env[Script[pc].var], Script[pc].channel)
                           /\ UNCHANGED <<env, out>>
    \/ Step("println") /\ Println(env[Script[pc].var]) /\ UNCHANGED env

MainSpec == Init /\ [][MainNext]_vars

\* --------------------------------------------------------------- claims
\* The sum of a sequence of f32 values, added left to right from 0.0.
RECURSIVE F32Sum(_)
F32Sum(xs) ==
    IF xs = <<>> THEN F32Zero
    ELSE F32Add(F32Sum(SubSeq(xs, 1, Len(xs) - 1)), xs[Len(xs)])

\* The durations of the direct children of the composite at id.
ChildDurations(id) ==
    [i \in DOMAIN heap[id].elements |-> duration(heap, heap[id].elements[i])]

\* The lengths of the direct children of the composite at id, all Notes.
ChildLengths(id) ==
    [i \in DOMAIN heap[id].elements |-> heap[heap[id].elements[i]].duration]

AllNotes(id) ==
    \A i \in DOMAIN heap[id].elements : heap[heap[id].elements[i]].kind = "Note"

\* d is a multiple of 1/16.
Sixteenths(d) == d.m = 0 \/ d.e + TrailingZeros(d.m) >= -4

DurationOf(kind) == last.op = "duration" /\ heap[last.id].kind = kind

\* C1 as amended: Sequential.duration() is the sum of duration() over its
\* direct children, each counted once and added in list order, and 0 for an
\* empty Sequential; for notes of lengths d1..dn it is 3840*d1 + ... + 3840*dn
\* in f32, which is 3840*(d1 + ... + dn) when every length is a multiple of
\* 1/16.
C1_SequentialDuration ==
    DurationOf("Sequential") =>
        /\ last.result = F32Sum(ChildDurations(last.id))
        /\ heap[last.id].elements = <<>> => last.result = F32Zero
        /\ AllNotes(last.id) =>
              /\ last.result =
                    F32Sum([i \in DOMAIN heap[last.id].elements |->
                               F32Mul(ChildLengths(last.id)[i], MIDI_TEMPO)])
              /\ (\A i \in DOMAIN heap[last.id].elements :
                        Sixteenths(ChildLengths(last.id)[i]))
                    => last.result =
                          F32Mul(F32Sum(ChildLengths(last.id)), MIDI_TEMPO)

\* C1 as stated: a Sequential of notes of lengths d1..dn has duration
\* 3840 * (d1 + ... + dn).
C1_Original ==
    DurationOf("Sequential") /\ AllNotes(last.id) =>
        last.result = F32Mul(F32Sum(ChildLengths(last.id)), MIDI_TEMPO)

\* C1's case: duration() was called on a Sequential holding a Note, a Pause
\* and a composite.
C1_Witness ==
    /\ DurationOf("Sequential")
    /\ {heap[heap[last.id].elements[i]].kind : i \in DOMAIN heap[last.id].elements}
          \in {{"Note", "Pause", "Parallel"}, {"Note", "Pause", "Sequential"}}

\* C2: Parallel.duration() is the greatest duration() of its direct children,
\* whatever their order, and negative infinity when there is no child.
C2_ParallelDuration ==
    DurationOf("Parallel") =>
        IF heap[last.id].elements = <<>>
        THEN last.result = NEG_INFINITY
        ELSE /\ \E i \in DOMAIN ChildDurations(last.id) :
                    last.result = ChildDurations(last.id)[i]
             /\ \A i \in DOMAIN ChildDurations(last.id) :
                    ~F32Lt(last.result, ChildDurations(last.id)[i])

\* C2's case: duration() was called on a Parallel whose longest child is not
\* the last one.
C2_Witness ==
    /\ DurationOf("Parallel")
    /\ Len(heap[last.id].elements) >= 2
    /\ F32Lt(ChildDurations(last.id)[Len(heap[last.id].elements)],
             ChildDurations(last.id)[1])

\* C3: after set_channel(X) on a Sequential or Parallel every Note in it, at
\* any depth, has instrument X.
C3_SetChannelReachesEveryNote ==
    last.op = "set_channel" /\ heap[last.id].kind \in Composite =>
        \A n \in NotesOf(heap, last.id) : heap[n].instrument = last.channel

\* C3's case: set_channel was called on a composite that holds a composite
\* with a Note, and whose Notes had two different instruments.
C3_Witness ==
    /\ last.op = "set_channel"
    /\ heap[last.id].kind \in Composite
    /\ Cardinality(last.pre) >= 2
    /\ \E i \in DOMAIN heap[last.id].elements :
          /\ heap[heap[last.id].elements[i]].kind \in Composite
          /\ NotesOf(heap, heap[last.id].elements[i]) # {}

\* C4: set_channel on a local variable leaves the tree of every other local
\* variable as it was; the other locals are its clones or what it was cloned
\* from.
C4_CloneIndependence ==
    [][last'.op = "set_channel" =>
          \A r \in roots \ {last'.id} : Tree(heap', r) = Tree(heap, r)]_vars

\* C4's case: set_channel was called on a clone and changed its Notes, and
\* the element it was cloned from has Notes.
C4_Witness ==
    /\ last.op = "set_channel"
    /\ last.pre \ {last.channel} # {}
    /\ \E a \in roots : a < last.id /\ NotesOf(heap, a) # {}
                        /\ heap[a].kind \in Composite

\* C5: every duration() is >= 0.
C5_NonNegative == last.op = "duration" => ~F32Lt(last.result, F32Zero)

\* A node without its instrument.
Unplayed(node) ==
    IF node.kind = "Note" THEN [node EXCEPT !.instrument = "Piano"] ELSE node

\* C8: set_channel changes nothing but the instrument of Notes: the nodes,
\* their order, every name, octave and duration stay, so every duration()
\* stays; on a Pause nothing changes at all.
C8_SetChannelFrame ==
    [][last'.op = "set_channel" =>
          /\ roots' = roots
          /\ Len(heap') = Len(heap)
          /\ \A i \in DOMAIN heap : Unplayed(heap'[i]) = Unplayed(heap[i])
          /\ \A r \in roots : duration(heap', r) = duration(heap, r)
          /\ heap[last'.id].kind = "Pause" => heap' = heap]_vars

\* C8's case: set_channel was called on a composite that holds a Pause and
\* a Note whose instrument it changed.
C8_Witness ==
    /\ last.op = "set_channel"
    /\ last.pre \ {last.channel} # {}
    /\ \E n \in Reach(heap, last.id) : heap[n].kind = "Pause"

\* C9: a second set_channel(X) right after set_channel(X) changes nothing.
C9_SetChannelIdempotent ==
    last.op = "set_channel" => set_channel(heap, last.id, last.channel) = heap

\* C9's case: set_channel was called on a Sequential and changed two Notes
\* or more.
C9_Witness ==
    /\ last.op = "set_channel"
    /\ heap[last.id].kind = "Sequential"
    /\ last.pre \ {last.channel} # {}
    /\ Cardinality(NotesOf(heap, last.id)) >= 2

\* ------------------------------------------------------ claims on main
\* The bars println! prints for the element at id.
Bars(id) == F32Div(duration(heap, id), MIDI_TEMPO)

\* The canon's voices once main has run: the three elements of canon, the
\* copy of the melody in each, and the Pause before it.
Voice(k) == heap[env["canon"]].elements[k]

Melody(k) == IF k = 1 THEN Voice(1) ELSE heap[Voice(k)].elements[2]

Offset(k) == heap[Voice(k)].elements[1]

\* C6 as amended: the melody is 19 elements long and main prints exactly 4.0
\* bars for it.
C6_MelodyBars ==
    Len(out) >= 1 =>
        /\ out[1] = F32FromInt(4)
        /\ MainDone => Len(heap[Melody(1)].elements) = 19

\* C6 as stated: the melody is exactly 2.0 bars.
C6_Original == Len(out) >= 1 => out[1] = F32FromInt(2)

\* C6's case: main has printed the length of the melody.
C6_Witness == Len(out) = 1 /\ last.op = "duration" /\ last.id = env["music"]

\* C7 as amended: the canon is as long as its longest voice, the violin
\* voice; the offsets of voices 2 and 3 are 1.0 and 2.0 bars, so the canon is
\* 2.0 bars longer than the melody.
C7_CanonBars ==
    MainDone =>
        /\ out[2] = F32Max(Bars(Voice(1)), F32Max(Bars(Voice(2)), Bars(Voice(3))))
        /\ Bars(Voice(1)) = out[1]
        /\ Bars(Voice(2)) = F32Add(Bars(Offset(2)), out[1])
        /\ Bars(Voice(3)) = F32Add(Bars(Offset(3)), out[1])
        /\ out[2] = Bars(Voice(3))
        /\ Bars(Offset(2)) = F32FromInt(1)
        /\ Bars(Offset(3)) = F32FromInt(2)
        /\ out[2] = F32Add(out[1], F32FromInt(2))

\* C7 as stated: the violin voice starts 0.5 bar in, so the canon is 0.5 bar
\* longer than the melody.
C7_Original ==
    MainDone =>
        /\ Bars(Offset(3)) = Frac(1, 2)
        /\ out[2] = F32Add(out[1], Frac(1, 2))

\* C7's case: main has printed the length of the canon, a Parallel of three
\* voices.
C7_Witness ==
    /\ MainDone
    /\ Len(out) = 2
    /\ heap[env["canon"]].kind = "Parallel"
    /\ Len(heap[env["canon"]].elements) = 3

InstrumentsOf(id) == {heap[n].instrument : n \in NotesOf(heap, id)}

\* C10: in the canon main builds, every Note of voice 1 plays Piano, every
\* Note of voice 2 Organ and every Note of voice 3 Violin, the Notes of the
\* triplets included, and the three copies of the melody last equally long.
C10_CanonVoices ==
    MainDone =>
        /\ InstrumentsOf(Voice(1)) = {"Piano"}
        /\ InstrumentsOf(Voice(2)) = {"Organ"}
        /\ InstrumentsOf(Voice(3)) = {"Violin"}
        /\ \A k \in 1..3 : Cardinality(NotesOf(heap, Voice(k))) = 27
        /\ \A j, k \in 1..3 : NotesOf(heap, Voice(j)) \cap NotesOf(heap, Voice(k)) # {}
                                 => j = k
        /\ duration(heap, Melody(2)) = duration(heap, Melody(1))
        /\ duration(heap, Melody(3)) = duration(heap, Melody(1))

\* C10's case: main has run, and each voice holds Notes inside a triplet.
C10_Witness ==
    /\ MainDone
    /\ \A k \in 1..3 :
          \E i \in DOMAIN heap[Melody(k)].elements :
             /\ heap[heap[Melody(k)].elements[i]].kind = "Sequential"
             /\ NotesOf(heap, heap[Melody(k)].elements[i]) # {}

====
